---- MODULE Spec2Model ----
(***************************************************************************)
(* Model of the scene-graph TransformSystem of legion_transform            *)
(* (src/src/systems.rs).  One tick (run_now) builds a forest of the        *)
(* entities whose Parent tag or Transform changed and rewrites the         *)
(* global_matrix of every entity of that forest.                           *)
(*                                                                         *)
(* Matrices are restricted to the sub-monoid of Matrix4 generated by       *)
(* translations along x, rotations by PI about y and uniform scalings:     *)
(* the affine maps x |-> a*x + b, written [a, b].  Their product is the    *)
(* matrix product of the corresponding homogeneous matrices and is not     *)
(* commutative.                                                            *)
(***************************************************************************)
EXTENDS Integers, Sequences, FiniteSets, TLC

\* Number of entities in the world.
NumEntities == 3
\* Number of store mutations (tag and transform writes) in one behaviour.
MaxWrites == 2

Entity == 1..NumEntities
\* Absence of a Parent tag.
NoParent == 0
\* Cut-off of the recursion of explore_dfs, above anything the code reaches.
RecursionCap == NumEntities + 3

TranslationVals == {1}
RotationVals == {-1}
ScaleVals == {2}

VARIABLES
    transform,          \* Entity -> Transform component
    parent,             \* Entity -> Parent tag (NoParent when untagged)
    parent_changed,     \* entities whose Parent tag changed since the last scan
    transform_changed,  \* entities whose Transform was written since the last scan
    pc,                 \* position of run_now
    forest,             \* run_now: HashMap<Entity, TreeNode>
    visited,            \* run_now: HashSet<Entity>
    queue,              \* entities the running scan has still to yield
    scanned,            \* entities yielded by each of the two scans of this tick
    pre,                \* transform when this tick started
    pre_parent,         \* parent when this tick started
    since,              \* store mutations since the last tick ended
    tick_op,            \* value of since when this tick started
    deepest,            \* deepest nesting of explore_dfs in this tick
    writes              \* store mutations so far

vars == <<transform, parent, parent_changed, transform_changed, pc, forest,
          visited, queue, scanned, pre, pre_parent, since, tick_op, deepest,
          writes>>

-----------------------------------------------------------------------------
(* Matrices and the Transform component *)

Identity == [a |-> 1, b |-> 0]

\* Matrix product m * n.
Mul(m, n) == [a |-> m.a * n.a, b |-> m.a * n.b + m.b]

Translation(t) == [a |-> 1, b |-> t]
Rotation(r) == [a |-> r, b |-> 0]
Scaling(s) == [a |-> s, b |-> 0]

\* Transform::default()
DefaultTransform ==
    [translation |-> 0, rotation |-> 1, scale |-> 1, global_matrix |-> Identity]

\* Transform::matrix(): translation * rotation * scale.
LocalMatrix(t) ==
    Mul(Mul(Translation(t.translation), Rotation(t.rotation)), Scaling(t.scale))

\* The transforms the entities are inserted with: forward_one_transform for
\* all but the last, rotate_right_90 for the last.
InsertedTransform(e) ==
    IF e < NumEntities
    THEN [DefaultTransform EXCEPT !.translation = 1]
    ELSE [DefaultTransform EXCEPT !.rotation = -1]

None == [some |-> FALSE, val |-> Identity]
Some(m) == [some |-> TRUE, val |-> m]

-----------------------------------------------------------------------------
(* TreeNode and the forest *)

\* TreeNode::new
NewTreeNode(entity) == [entity |-> entity, children |-> <<>>]

EmptyForest == [e \in {} |-> NewTreeNode(0)]

\* HashMap::insert
ForestInsert(f, entity, node) ==
    [e \in (DOMAIN f) \cup {entity} |-> IF e = entity THEN node ELSE f[e]]

\* HashMap::remove
ForestRemove(f, entity) == [e \in (DOMAIN f) \ {entity} |-> f[e]]

\* The orders in which a query can yield the entities: a query yields the
\* entities that match it in the order they have in one of these sequences.
Orders == {s \in [1..NumEntities -> Entity] : \A i, j \in 1..NumEntities : s[i] = s[j] => i = j}

InOrder(S, ord) == SelectSeq(ord, LAMBDA e : e \in S)

Max(x, y) == IF x >= y THEN x ELSE y

-----------------------------------------------------------------------------
(* The queries *)

\* <(Read<Transform>, Tagged<Parent>)>::query().filter(changed::<Tagged<Parent>>())
ParentChangedQuery == {e \in Entity : parent[e] # NoParent /\ e \in parent_changed}

\* The transform scan without its changed filter.
TransformChangedQuery_NoFilter == Entity

\* <(Read<Transform>)>::query().filter(changed::<Transform>())
TransformChangedQuery == {e \in Entity : e \in transform_changed}

\* <(Read<Transform>)>::query().filter(tag_value(&parent))
ChildrenQuery(p, ord) == InOrder({c \in Entity : parent[c] = p}, ord)

\* What the children queries of one exploration can yield: for every entity
\* its children, in any order.
ChildrenYields == {[p \in Entity |-> ChildrenQuery(p, ord)] : ord \in Orders}

-----------------------------------------------------------------------------
(* Forest construction *)

RECURSIVE ExploreDfs(_, _, _, _, _)
RECURSIVE ExploreLoop(_, _, _, _, _, _)

\* The loop of explore_dfs without visited.insert(child_entity).
ExploreLoop_NoVisitedInsert(parent_node, children, f, v, yields, depth) ==
    IF children = <<>>
    THEN [node |-> parent_node, forest |-> f, visited |-> v, deepest |-> depth]
    ELSE LET child_entity == Head(children) IN
         IF child_entity \in DOMAIN f
         THEN [node |-> [parent_node EXCEPT !.children = Append(@, f[child_entity])],
               forest |-> ForestRemove(f, child_entity),
               visited |-> v,
               deepest |-> depth]
         ELSE IF child_entity \in v
         THEN [node |-> parent_node, forest |-> f, visited |-> v, deepest |-> depth]
         ELSE IF depth >= RecursionCap
         THEN [node |-> parent_node, forest |-> f, visited |-> v, deepest |-> depth + 1]
         ELSE LET sub == ExploreDfs(NewTreeNode(child_entity), f, v, yields, depth + 1)
                  rest == ExploreLoop(
                              [parent_node EXCEPT !.children = Append(@, sub.node)],
                              Tail(children), sub.forest, sub.visited, yields, depth)
              IN  [rest EXCEPT !.deepest = Max(sub.deepest, rest.deepest)]

\* The for loop of explore_dfs over the children still to come.
ExploreLoop(parent_node, children, f, v, yields, depth) ==
    IF children = <<>>
    THEN [node |-> parent_node, forest |-> f, visited |-> v, deepest |-> depth]
    ELSE LET child_entity == Head(children) IN
         IF child_entity \in DOMAIN f
         THEN \* rotate the tree under the parent node and return
              [node |-> [parent_node EXCEPT !.children = Append(@, f[child_entity])],
               forest |-> ForestRemove(f, child_entity),
               visited |-> v,
               deepest |-> depth]
         ELSE IF child_entity \in v
         THEN \* visited but not a root: return
              [node |-> parent_node, forest |-> f, visited |-> v, deepest |-> depth]
         ELSE IF depth >= RecursionCap
         THEN [node |-> parent_node, forest |-> f, visited |-> v, deepest |-> depth + 1]
         ELSE LET sub == ExploreDfs(NewTreeNode(child_entity), f,
                                    v \cup {child_entity}, yields, depth + 1)
                  rest == ExploreLoop(
                              [parent_node EXCEPT !.children = Append(@, sub.node)],
                              Tail(children), sub.forest, sub.visited, yields, depth)
              IN  [rest EXCEPT !.deepest = Max(sub.deepest, rest.deepest)]

\* explore_dfs
ExploreDfs(parent_node, f, v, yields, depth) ==
    ExploreLoop(parent_node, yields[parent_node.entity], f, v, yields, depth)

\* explore_tree_dfs without the test of the visited set.
ExploreTreeDfs_NoVisitedCheck(entity, f, v, yields) ==
    LET r == ExploreDfs(NewTreeNode(entity), f, v, yields, 1)
    IN  [forest |-> ForestInsert(r.forest, entity, r.node),
         visited |-> r.visited \cup {entity},
         deepest |-> r.deepest]

\* explore_tree_dfs
ExploreTreeDfs(entity, f, v, yields) ==
    IF entity \in v
    THEN [forest |-> f, visited |-> v, deepest |-> 0]
    ELSE LET r == ExploreDfs(NewTreeNode(entity), f, v, yields, 1)
         IN  [forest |-> ForestInsert(r.forest, entity, r.node),
              visited |-> r.visited \cup {entity},
              deepest |-> r.deepest]

-----------------------------------------------------------------------------
(* Matrix recompute *)

RECURSIVE RebuildRecursive(_, _, _)
RECURSIVE RebuildChildren(_, _, _)

\* rebuild_recursive with the product the other way round.
RebuildRecursive_ChildOnLeft(node, parent_matrix, tr) ==
    LET global_matrix ==
            IF parent_matrix.some
            THEN Mul(LocalMatrix(tr[node.entity]), parent_matrix.val)
            ELSE LocalMatrix(tr[node.entity])
        written == [tr EXCEPT ![node.entity].global_matrix = global_matrix]
    IN  RebuildChildren(node.children, Some(global_matrix), written)

\* rebuild_recursive that leaves the global_matrix of a root as it is.
RebuildRecursive_RootKeepsGlobal(node, parent_matrix, tr) ==
    LET global_matrix ==
            IF parent_matrix.some
            THEN Mul(parent_matrix.val, LocalMatrix(tr[node.entity]))
            ELSE tr[node.entity].global_matrix
        written == [tr EXCEPT ![node.entity].global_matrix = global_matrix]
    IN  RebuildChildren(node.children, Some(global_matrix), written)

\* rebuild_recursive that stores a fresh Transform holding the new matrix.
RebuildRecursive_ResetsTransform(node, parent_matrix, tr) ==
    LET global_matrix ==
            IF parent_matrix.some
            THEN Mul(parent_matrix.val, LocalMatrix(tr[node.entity]))
            ELSE LocalMatrix(tr[node.entity])
        written == [tr EXCEPT ![node.entity] =
                        [DefaultTransform EXCEPT !.global_matrix = global_matrix]]
    IN  RebuildChildren(node.children, Some(global_matrix), written)

\* rebuild_recursive: the store after the node and its subtree are rewritten.
RebuildRecursive(node, parent_matrix, tr) ==
    LET global_matrix ==
            IF parent_matrix.some
            THEN Mul(parent_matrix.val, LocalMatrix(tr[node.entity]))
            ELSE LocalMatrix(tr[node.entity])
        written == [tr EXCEPT ![node.entity].global_matrix = global_matrix]
    IN  RebuildChildren(node.children, Some(global_matrix), written)

\* node.children.iter().for_each(...)
RebuildChildren(children, parent_matrix, tr) ==
    IF children = <<>>
    THEN tr
    ELSE RebuildChildren(Tail(children), parent_matrix,
                         RebuildRecursive(Head(children), parent_matrix, tr))

RECURSIVE RebuildTrees_FoldsParent(_, _, _)
\* The final loop of run_now handing a tagged root its parent's global_matrix.
RebuildTrees_FoldsParent(roots, f, tr) ==
    IF roots = <<>>
    THEN tr
    ELSE LET root == Head(roots)
             parent_matrix == IF parent[root] = NoParent
                              THEN None
                              ELSE Some(tr[parent[root]].global_matrix)
         IN  RebuildTrees_FoldsParent(Tail(roots), f,
                                      RebuildRecursive(f[root], parent_matrix, tr))

RECURSIVE RebuildTrees(_, _, _)
\* trees.into_iter().for_each(|tree| rebuild_recursive(tree, None, world))
RebuildTrees(roots, f, tr) ==
    IF roots = <<>>
    THEN tr
    ELSE RebuildTrees(Tail(roots), f, RebuildRecursive(f[Head(roots)], None, tr))

-----------------------------------------------------------------------------
(* Reading a forest *)

RECURSIVE Occurrences(_, _)
\* How many nodes of the trees of a sequence carry the entity.
Occurrences(e, nodes) ==
    IF nodes = <<>>
    THEN 0
    ELSE (IF Head(nodes).entity = e THEN 1 ELSE 0)
         + Occurrences(e, Head(nodes).children)
         + Occurrences(e, Tail(nodes))

RECURSIVE Attachments(_)
\* The <<tree parent, child>> pairs of the trees of a sequence.
Attachments(nodes) ==
    IF nodes = <<>>
    THEN {}
    ELSE LET n == Head(nodes) IN
         {<<n.entity, n.children[i].entity>> : i \in 1..Len(n.children)}
         \cup Attachments(n.children) \cup Attachments(Tail(nodes))

\* The trees of a forest, as a sequence.
Trees(f) ==
    LET roots == InOrder(DOMAIN f, [i \in 1..NumEntities |-> i])
    IN  [i \in 1..Len(roots) |-> f[roots[i]]]

OccurrencesIn(f, e) == Occurrences(e, Trees(f))

ForestEntities(f) == {e \in Entity : OccurrencesIn(f, e) > 0}

RECURSIVE Ancestor(_, _, _)
\* The k-th ancestor of e along the Parent tags, NoParent beyond the top.
Ancestor(par, e, k) ==
    IF k = 0 \/ e = NoParent THEN e ELSE Ancestor(par, par[e], k - 1)

Acyclic(par) == \A e \in Entity : Ancestor(par, e, NumEntities) = NoParent

-----------------------------------------------------------------------------
(* The store, as the tests drive it *)

NoOp == [kind |-> "none", entity |-> 0, old |-> 0, new |-> 0]

\* What has happened to the store since the last tick, after one more mutation.
Record(kind, e, old, new) ==
    IF since.kind = "none"
    THEN [kind |-> kind, entity |-> e, old |-> old, new |-> new]
    ELSE [kind |-> "many", entity |-> 0, old |-> 0, new |-> 0]

Idle == pc \in {"idle", "done"}

\* The locals of run_now are gone once it has returned and the store moves on.
DropTick ==
    /\ forest' = EmptyForest
    /\ visited' = {}
    /\ queue' = {}
    /\ scanned' = [parent |-> {}, transform |-> {}]
    /\ pre' = transform'
    /\ pre_parent' = parent'
    /\ tick_op' = NoOp
    /\ deepest' = 0

Init ==
    /\ transform = [e \in Entity |-> InsertedTransform(e)]
    /\ parent = [e \in Entity |-> NoParent]
    /\ parent_changed = {}
    /\ transform_changed = Entity
    /\ pc = "idle"
    /\ forest = EmptyForest
    /\ visited = {}
    /\ queue = {}
    /\ scanned = [parent |-> {}, transform |-> {}]
    /\ pre = transform
    /\ pre_parent = parent
    /\ since = [kind |-> "many", entity |-> 0, old |-> 0, new |-> 0]
    /\ tick_op = NoOp
    /\ deepest = 0
    /\ writes = 0

\* Transform::set_translation_xyz
SetTranslation(e, t) ==
    /\ Idle /\ writes < MaxWrites
    /\ transform' = [transform EXCEPT ![e].translation = t]
    /\ transform_changed' = transform_changed \cup {e}
    /\ since' = Record("transform", e, 0, 0)
    /\ pc' = "idle" /\ writes' = writes + 1
    /\ UNCHANGED <<parent, parent_changed>>
    /\ DropTick

\* Transform::set_rotation
SetRotation(e, r) ==
    /\ Idle /\ writes < MaxWrites
    /\ transform' = [transform EXCEPT ![e].rotation = r]
    /\ transform_changed' = transform_changed \cup {e}
    /\ since' = Record("transform", e, 0, 0)
    /\ pc' = "idle" /\ writes' = writes + 1
    /\ UNCHANGED <<parent, parent_changed>>
    /\ DropTick

\* Transform::set_scale
SetScale(e, s) ==
    /\ Idle /\ writes < MaxWrites
    /\ transform' = [transform EXCEPT ![e].scale = s]
    /\ transform_changed' = transform_changed \cup {e}
    /\ since' = Record("transform", e, 0, 0)
    /\ pc' = "idle" /\ writes' = writes + 1
    /\ UNCHANGED <<parent, parent_changed>>
    /\ DropTick

\* world.add_tag(e, Parent(p))
AddTag(e, p) ==
    /\ Idle /\ writes < MaxWrites
    /\ parent[e] # p
    /\ parent' = [parent EXCEPT ![e] = p]
    /\ parent_changed' = parent_changed \cup {e}
    /\ since' = Record("add_tag", e, parent[e], p)
    /\ pc' = "idle" /\ writes' = writes + 1
    /\ UNCHANGED <<transform, transform_changed>>
    /\ DropTick

\* world.remove_tag::<Parent>(e)
RemoveTag(e) ==
    /\ Idle /\ writes < MaxWrites
    /\ parent[e] # NoParent
    /\ parent' = [parent EXCEPT ![e] = NoParent]
    /\ parent_changed' = parent_changed \cup {e}
    /\ since' = Record("remove_tag", e, parent[e], NoParent)
    /\ pc' = "idle" /\ writes' = writes + 1
    /\ UNCHANGED <<transform, transform_changed>>
    /\ DropTick

-----------------------------------------------------------------------------
(* run_now *)

\* run_now up to the start of the first loop.
RunNow ==
    /\ Idle
    /\ pc' = "parent_scan"
    /\ forest' = EmptyForest
    /\ visited' = {}
    /\ queue' = ParentChangedQuery
    /\ scanned' = [parent |-> ParentChangedQuery, transform |-> {}]
    /\ parent_changed' = {}
    /\ pre' = transform
    /\ pre_parent' = parent
    /\ tick_op' = since
    /\ deepest' = 0
    /\ UNCHANGED <<transform, parent, transform_changed, since, writes>>

\* One iteration of a scan loop: explore_tree_dfs on the next entity.
Explore(entity, yields) ==
    LET r == ExploreTreeDfs(entity, forest, visited, yields) IN
    /\ forest' = r.forest
    /\ visited' = r.visited
    /\ deepest' = Max(deepest, r.deepest)
    /\ queue' = queue \ {entity}
    /\ UNCHANGED <<transform, parent, parent_changed, transform_changed, pc,
                   scanned, pre, pre_parent, since, tick_op, writes>>

\* The loop over the parent-changed scan.
ExploreParentChanged ==
    /\ pc = "parent_scan"
    /\ \E entity \in queue, yields \in ChildrenYields : Explore(entity, yields)

\* The end of the first loop and the start of the second.
StartTransformScan ==
    /\ pc = "parent_scan" /\ queue = {}
    /\ pc' = "transform_scan"
    /\ queue' = TransformChangedQuery
    /\ scanned' = [scanned EXCEPT !.transform = TransformChangedQuery]
    /\ transform_changed' = {}
    /\ UNCHANGED <<transform, parent, parent_changed, forest, visited,
                   pre, pre_parent, since, tick_op, deepest, writes>>

\* The loop over the transform-changed scan.
ExploreTransformChanged ==
    /\ pc = "transform_scan"
    /\ \E entity \in queue, yields \in ChildrenYields : Explore(entity, yields)

\* The forest is built: rebuild the global_matrix of every tree.
Rebuild ==
    /\ pc = "transform_scan" /\ queue = {}
    /\ \E roots \in {InOrder(DOMAIN forest, ord) : ord \in Orders} :
          transform' = RebuildTrees(roots, forest, transform)
    /\ pc' = "done"
    /\ since' = NoOp
    /\ UNCHANGED <<parent, parent_changed, transform_changed, forest, visited,
                   queue, scanned, pre, pre_parent, tick_op, deepest, writes>>

Next ==
    \/ \E e \in Entity, t \in TranslationVals : SetTranslation(e, t)
    \/ \E e \in Entity, r \in RotationVals : SetRotation(e, r)
    \/ \E e \in Entity, s \in ScaleVals : SetScale(e, s)
    \/ \E e \in Entity, p \in Entity : AddTag(e, p)
    \/ \E e \in Entity : RemoveTag(e)
    \/ RunNow
    \/ ExploreParentChanged
    \/ StartTransformScan
    \/ ExploreTransformChanged
    \/ Rebuild

Spec == Init /\ [][Next]_vars

-----------------------------------------------------------------------------
(* Properties *)

\* Forest construction of this tick has finished.
Built == (pc = "transform_scan" /\ queue = {}) \/ pc = "done"

\* run_now has just returned and the store was not touched since.
Done == pc = "done"

Global(e) == transform[e].global_matrix
Local(e) == LocalMatrix(transform[e])
ChildrenOf(p) == {c \in Entity : parent[c] = p}
Dirty == scanned.parent \cup scanned.transform

\* C1: after a tick over an acyclic parent relation every non-root node of the
\* forest hangs under the entity its Parent tag names and its global matrix is
\* its tree parent's global matrix times its own local matrix; in a chain
\* A -> B -> C whose three entities were all dirtied, global(A) = local(A),
\* global(B) = global(A) * local(B) and global(C) = global(B) * local(C).
C1_ChainComposition ==
    (Done /\ Acyclic(parent)) =>
        /\ \A att \in Attachments(Trees(forest)) :
              /\ parent[att[2]] = att[1]
              /\ Global(att[2]) = Mul(Global(att[1]), Local(att[2]))
        /\ \A A, B, C \in Entity :
              ( /\ parent[A] = NoParent
                /\ ChildrenOf(A) = {B}
                /\ ChildrenOf(B) = {C}
                /\ {A, B, C} \subseteq scanned.transform )
              => /\ Global(A) = Local(A)
                 /\ Global(B) = Mul(Global(A), Local(B))
                 /\ Global(C) = Mul(Global(B), Local(C))

\* A chain of three dirtied entities was recomputed and the composition shows
\* in the last one.
C1_Witness ==
    /\ Done /\ Acyclic(parent)
    /\ \E A, B, C \in Entity :
          /\ parent[A] = NoParent /\ ChildrenOf(A) = {B} /\ ChildrenOf(B) = {C}
          /\ {A, B, C} \subseteq scanned.transform
          /\ <<A, B>> \in Attachments(Trees(forest))
          /\ <<B, C>> \in Attachments(Trees(forest))
          /\ Global(C) # Local(C)

\* C2: when forest construction finishes over an acyclic parent relation, no
\* entity occurs twice in the forest and every entity a scan returned occurs
\* exactly once.
C2_Partition ==
    (Built /\ Acyclic(parent)) =>
        /\ \A e \in Entity : OccurrencesIn(forest, e) <= 1
        /\ \A e \in Dirty : OccurrencesIn(forest, e) = 1

\* An entity returned by both scans sits in the forest as a non-root node of a
\* tree that was rotated under another root.
C2_Witness ==
    /\ Built /\ Acyclic(parent)
    /\ \E e \in scanned.parent \cap scanned.transform :
          /\ e \notin DOMAIN forest
          /\ \E att \in Attachments(Trees(forest)) : att[2] = e
    /\ Cardinality(DOMAIN forest) >= 2

\* Before this tick the entity had the global matrix a tick gives it under the
\* Parent tag it had: it was processed and nothing of it changed since.
UpToDate(e) ==
    pre[e].global_matrix =
        IF pre_parent[e] = NoParent
        THEN LocalMatrix(pre[e])
        ELSE Mul(pre[pre_parent[e]].global_matrix, LocalMatrix(pre[e]))

\* C3: when the only store mutation since the previous tick reassigned the
\* Parent tag of B from A to a third, already processed entity R, and B was
\* composed under A before, then after the tick global(B) = global(R) * local(B).
C3_Reparenting ==
    ( /\ Done /\ Acyclic(parent)
      /\ tick_op.kind = "add_tag"
      /\ Acyclic(pre_parent)
      /\ tick_op.old \notin {NoParent, tick_op.entity}
      /\ tick_op.new \notin {tick_op.old, tick_op.entity}
      /\ UpToDate(tick_op.old) /\ UpToDate(tick_op.new)
      /\ pre[tick_op.entity].global_matrix
            = Mul(pre[tick_op.old].global_matrix, LocalMatrix(pre[tick_op.entity])) )
    => Global(tick_op.entity) = Mul(Global(tick_op.new), Local(tick_op.entity))

\* C4: an entity without Parent tag whose Transform was written since the
\* previous tick has global_matrix = local matrix after the tick.
C4_NoParentEqualsLocal ==
    Done => \A e \in scanned.transform :
                parent[e] = NoParent => Global(e) = Local(e)

\* A parentless entity with a non-identity local matrix was rewritten while
\* other entities were dirty too.
C4_Witness ==
    /\ Done
    /\ \E e \in scanned.transform :
          /\ parent[e] = NoParent
          /\ Local(e) # Identity
          /\ pre[e].global_matrix # Local(e)
          /\ Global(e) = Local(e)
          /\ Dirty \ {e} # {}

RECURSIVE BuildForest(_, _, _, _)
BuildForest(candidates, f, v, yields) ==
    IF candidates = <<>>
    THEN f
    ELSE LET r == ExploreTreeDfs(Head(candidates), f, v, yields)
         IN  BuildForest(Tail(candidates), r.forest, r.visited, yields)

\* The roots and the attachments of a forest.
Shape(f) == [roots |-> DOMAIN f, attachments |-> Attachments(Trees(f))]

\* C6: for a fixed store and fixed scan results the forest has the same roots
\* and attachments whether the parent-changed candidates are explored before
\* the transform-changed ones or after them.
C6_OrderIndependence ==
    (Idle /\ Acyclic(parent)) =>
        \A yields \in ChildrenYields, po \in Orders, to \in Orders :
            LET ps == InOrder(ParentChangedQuery, po)
                ts == InOrder(TransformChangedQuery, to)
            IN  Shape(BuildForest(ps \o ts, EmptyForest, {}, yields))
                    = Shape(BuildForest(ts \o ps, EmptyForest, {}, yields))

\* C7: a tick leaves the Parent tags and the translation, rotation and scale
\* of every entity alone, and the global_matrix of every entity outside the
\* forest.
C7_Frame ==
    /\ pc \in {"parent_scan", "transform_scan"} =>
          transform = pre /\ parent = pre_parent
    /\ Done =>
          /\ parent = pre_parent
          /\ \A e \in Entity :
                /\ transform[e].translation = pre[e].translation
                /\ transform[e].rotation = pre[e].rotation
                /\ transform[e].scale = pre[e].scale
                /\ e \notin ForestEntities(forest) =>
                      Global(e) = pre[e].global_matrix

\* A tick rewrote an entity of the forest while an entity with a stale
\* global matrix stayed outside of it.
C7_Witness ==
    /\ Done
    /\ \E e \in ForestEntities(forest) : Global(e) # pre[e].global_matrix
    /\ \E e \in Entity \ ForestEntities(forest) :
          /\ Global(e) = pre[e].global_matrix
          /\ \/ parent[e] = NoParent /\ Global(e) # Local(e)
             \/ parent[e] # NoParent
                /\ Global(e) # Mul(Global(parent[e]), Local(e))

C9_BoundedRecursion ==
    /\ deepest <= NumEntities + 1
    /\ \A e \in Entity : OccurrencesIn(forest, e) <= 2

\* A tick finished over a cyclic parent relation with an entity of the cycle
\* in the forest twice.
C9_Witness ==
    /\ Done /\ ~Acyclic(parent)
    /\ \E e \in Entity :
          /\ OccurrencesIn(forest, e) = 2
          /\ \E k \in 1..NumEntities : Ancestor(parent, e, k) = e

\* C10: when forest construction finishes over an acyclic parent relation,
\* every entity whose Parent tag names an entity of the forest is attached
\* under that entity in the forest.
C10_DescendantCoverage ==
    (Built /\ Acyclic(parent)) =>
        \A e \in Entity :
            parent[e] \in ForestEntities(forest) =>
                <<parent[e], e>> \in Attachments(Trees(forest))

====
